---- MODULE Spec2Model ----
(***************************************************************************)
(* Model of src/app-logic/web-channel.js: the WebChannel bridge between    *)
(* profiler.firefox.com and the browser.  Each call of                     *)
(* queryIsMenuButtonEnabled / enableMenuButton creates a promise, adds a   *)
(* one-off listener for "WebChannelMessageToContent" and dispatches one    *)
(* "WebChannelMessageToChrome" event.  Inbound events are handed to every  *)
(* registered listener.                                                    *)
(***************************************************************************)
EXTENDS Integers, Sequences, FiniteSets, TLC

\* Bounds of the exploration.
MaxCalls == 2
MaxEvents == 3

Req == 1..MaxCalls

\* ------------------------------------------------------------------------
\* JavaScript values that occur in event payloads.

JSundefined == [typeof |-> "undefined", val |-> "undefined"]
JSstring(s) == [typeof |-> "string", val |-> s]
JSnumber(s) == [typeof |-> "number", val |-> s]
JSboolean(s) == [typeof |-> "boolean", val |-> s]

\* The channel id compared against at line 96 and sent at line 156.
CHANNEL_ID == "profiler.firefox.com"

\* `message` of an inbound event: undefined, null, a primitive or an object
\* with the three properties the module reads.
Primitive(t) ==
  [typeof |-> t, isNull |-> FALSE, error |-> JSundefined,
   type |-> JSundefined, menuButtonIsEnabled |-> JSundefined]

NullMessage ==
  [typeof |-> "object", isNull |-> TRUE, error |-> JSundefined,
   type |-> JSundefined, menuButtonIsEnabled |-> JSundefined]

Object(err, ty, mbe) ==
  [typeof |-> "object", isNull |-> FALSE, error |-> err,
   type |-> ty, menuButtonIsEnabled |-> mbe]

\* MessageFromBrowser (lines 25-31).
STATUS_RESPONSE(b) == Object(JSundefined, JSstring("STATUS_RESPONSE"), JSboolean(b))
ENABLE_MENU_BUTTON_DONE == Object(JSundefined, JSstring("ENABLE_MENU_BUTTON_DONE"), JSundefined)

\* MessageToBrowser (lines 16-19).
STATUS_QUERY == [type |-> "STATUS_QUERY"]
ENABLE_MENU_BUTTON == [type |-> "ENABLE_MENU_BUTTON"]

\* Message payloads the browser side may put on the bus.
Messages ==
  { Primitive("undefined"), NullMessage, Primitive("string"),
    STATUS_RESPONSE("true"), STATUS_RESPONSE("false"),
    ENABLE_MENU_BUTTON_DONE,
    Object(JSstring("boom"), JSundefined, JSundefined),
    Object(JSstring("boom"), JSstring("STATUS_RESPONSE"), JSboolean("true")),
    Object(JSnumber("42"), JSstring("ENABLE_MENU_BUTTON_DONE"), JSundefined),
    Object(JSundefined, JSnumber("123"), JSundefined) }

\* Traffic of another WebChannel on the same bus.
OtherMessages ==
  { STATUS_RESPONSE("true"),
    Object(JSstring("boom"), JSundefined, JSundefined) }

Event(i, m) == [hasDetail |-> TRUE, id |-> i, message |-> m]

\* A CustomEvent constructed without detail: event.detail is null.
NoDetailEvent == [hasDetail |-> FALSE, id |-> "", message |-> Primitive("undefined")]

InboundEvents ==
  { Event(CHANNEL_ID, m) : m \in Messages }
    \cup { Event("other.channel", m) : m \in OtherMessages }
    \cup { NoDetailEvent }

\* ------------------------------------------------------------------------
\* Promise values.

NoValue == [tag |-> "none", msg |-> Primitive("undefined")]
MessageValue(m) == [tag |-> "message", msg |-> m]
\* new Error('A malformed WebChannel event was received.')
MalformedError == [tag |-> "Error: A malformed WebChannel event was received.",
                   msg |-> Primitive("undefined")]

PendingPromise == [state |-> "pending", value |-> NoValue]

\* A deferred whose every resolve / reject call overwrites the outcome.
SettleLastWins(p, st, v) == [state |-> st, value |-> v]

\* resolve(v) / reject(v) of a promise: only the first call settles it.
Settle(p, st, v) ==
  IF p.state = "pending" THEN [state |-> st, value |-> v] ELSE p

\* ------------------------------------------------------------------------
\* The calls.

\* expectedResponse of each exported function.
ExpectedResponse(k) ==
  IF k = "query" THEN "STATUS_RESPONSE" ELSE "ENABLE_MENU_BUTTON_DONE"

\* message of each exported function.
RequestMessage(k) ==
  IF k = "query" THEN STATUS_QUERY ELSE ENABLE_MENU_BUTTON

\* handleMessage without the comparison against expectedResponse.
handleMessageAnyType(expectedResponse, message) ==
  message.type.typeof = "string"

\* handleMessage: message.type === expectedResponse.
handleMessage(expectedResponse, message) ==
  message.type = JSstring(expectedResponse)

\* `message &&` at line 97.
Truthy(message) ==
  /\ message.typeof # "undefined"
  /\ ~message.isNull

\* listener with the type branch tested before the error branch.
listenerTypeFirst(expectedResponse, event) ==
  IF ~event.hasDetail THEN "throws"
  ELSE IF /\ event.id = CHANNEL_ID
          /\ Truthy(event.message)
          /\ event.message.typeof = "object"
       THEN IF event.message.type.typeof = "string"
            THEN IF handleMessage(expectedResponse, event.message)
                 THEN "matched" ELSE "keepListening"
            ELSE IF event.message.error.typeof = "string" THEN "error"
                 ELSE "malformed"
       ELSE "malformed"

\* What one invocation of listener(event) does for a request awaiting
\* expectedResponse.
listener(expectedResponse, event) ==
  IF ~event.hasDetail THEN "throws"
  ELSE IF /\ event.id = CHANNEL_ID
          /\ Truthy(event.message)
          /\ event.message.typeof = "object"
       THEN IF event.message.error.typeof = "string" THEN "error"
            ELSE IF event.message.type.typeof = "string"
                 THEN IF handleMessage(expectedResponse, event.message)
                      THEN "matched" ELSE "keepListening"
                 ELSE "malformed"
       ELSE "malformed"

\* listener without the removeEventListener of its error branch.
RemovesListenerOnMatchOnly(outcome) == outcome = "matched"

\* The branches of listener that call window.removeEventListener.
RemovesListener(outcome) == outcome \in {"error", "matched"}

\* The branches of listener that call reject.
CallsReject(outcome) == outcome \in {"error", "malformed"}

\* The branch in which handleMessage calls resolve.
CallsResolve(outcome) == outcome = "matched"

\* The value passed to reject.
RejectValue(outcome, event) ==
  IF outcome = "error" THEN MessageValue(event.message) ELSE MalformedError

\* The executor with its two statements swapped.
ExecutorOrderSendFirst == <<"sendMessage", "registerOneOffListener">>

\* Order of the two statements of the promise executor.
ExecutorOrder == <<"registerOneOffListener", "sendMessage">>

\* JSON.stringify(message): the message serialized without its envelope.
JSONstringifyMessageOnly(envelope) ==
  << [tok |-> "punct", s |-> "{"], [tok |-> "string", s |-> "type"],
     [tok |-> "punct", s |-> ":"], [tok |-> "string", s |-> envelope.message.type],
     [tok |-> "punct", s |-> "}"] >>

\* JSON.stringify({ id: 'profiler.firefox.com', message }) as its tokens.
Str(s) == [tok |-> "string", s |-> s]
Punct(s) == [tok |-> "punct", s |-> s]
JSONstringify(envelope) ==
  << Punct("{"), Str("id"), Punct(":"), Str(envelope.id), Punct(","),
     Str("message"), Punct(":"),
     Punct("{"), Str("type"), Punct(":"), Str(envelope.message.type), Punct("}"),
     Punct("}") >>

\* ------------------------------------------------------------------------
\* State.

VARIABLES
  kind,          \* kind[r]: "none" before the call, then "query" or "enable"
  pc,            \* position of the running promise executor
  listeners,     \* listeners of WebChannelMessageToContent, in order of addition
  promise,       \* promise[r]: the promise of _sendMessageWithResponse
  result,        \* result[r]: the promise returned by the async function
  resolveCalls,  \* resolveCalls[r]: invocations of resolve
  rejectCalls,   \* rejectCalls[r]: invocations of reject
  addCalls,      \* addCalls[r]: calls of window.addEventListener
  removeCalls,   \* removeCalls[r]: calls of window.removeEventListener
  toChrome,      \* payloads of the dispatched WebChannelMessageToChrome events
  dispatched,    \* dispatched[r]: WebChannelMessageToChrome events dispatched by call r
  delivered,     \* number of WebChannelMessageToContent events delivered so far
  lastEvent,     \* the WebChannelMessageToContent event delivered last
  lastInvoked    \* the requests whose listener was invoked with lastEvent

vars == << kind, pc, listeners, promise, result, resolveCalls, rejectCalls,
           addCalls, removeCalls, toChrome, dispatched, delivered, lastEvent,
           lastInvoked >>

Idle == [req |-> 0, pos |-> 0, dispatching |-> FALSE]

PendingResult == [state |-> "pending", value |-> JSundefined, reason |-> NoValue]

Init ==
  /\ kind = [r \in Req |-> "none"]
  /\ pc = Idle
  /\ listeners = << >>
  /\ promise = [r \in Req |-> PendingPromise]
  /\ result = [r \in Req |-> PendingResult]
  /\ resolveCalls = [r \in Req |-> 0]
  /\ rejectCalls = [r \in Req |-> 0]
  /\ addCalls = [r \in Req |-> 0]
  /\ removeCalls = [r \in Req |-> 0]
  /\ toChrome = << >>
  /\ dispatched = [r \in Req |-> 0]
  /\ delivered = 0
  /\ lastEvent = NoDetailEvent
  /\ lastInvoked = {}

IsRegistered(r) == \E i \in 1..Len(listeners) : listeners[i] = r

NumCalls == Cardinality({r \in Req : kind[r] # "none"})

\* The executor moves to its next statement, or returns.
Advance(p) ==
  IF p.pos = Len(ExecutorOrder) THEN Idle
  ELSE [req |-> p.req, pos |-> p.pos + 1, dispatching |-> FALSE]

\* The next unused request.
NewRequest == NumCalls + 1

\* queryIsMenuButtonEnabled() enters _sendMessageWithResponse with
\* expectedResponse 'STATUS_RESPONSE' and starts the promise executor.
queryIsMenuButtonEnabled ==
  /\ pc = Idle
  /\ NumCalls < MaxCalls
  /\ kind' = [kind EXCEPT ![NewRequest] = "query"]
  /\ pc' = [req |-> NewRequest, pos |-> 1, dispatching |-> FALSE]
  /\ UNCHANGED << listeners, promise, result, resolveCalls, rejectCalls,
                  addCalls, removeCalls, toChrome, dispatched, delivered,
                  lastEvent, lastInvoked >>

\* enableMenuButton() enters _sendMessageWithResponse with expectedResponse
\* 'ENABLE_MENU_BUTTON_DONE' and starts the promise executor.
enableMenuButton ==
  /\ pc = Idle
  /\ NumCalls < MaxCalls
  /\ kind' = [kind EXCEPT ![NewRequest] = "enable"]
  /\ pc' = [req |-> NewRequest, pos |-> 1, dispatching |-> FALSE]
  /\ UNCHANGED << listeners, promise, result, resolveCalls, rejectCalls,
                  addCalls, removeCalls, toChrome, dispatched, delivered,
                  lastEvent, lastInvoked >>

\* window.addEventListener('WebChannelMessageToContent', listener, true)
registerOneOffListener ==
  /\ pc.pos > 0
  /\ ~pc.dispatching
  /\ ExecutorOrder[pc.pos] = "registerOneOffListener"
  /\ listeners' = Append(listeners, pc.req)
  /\ addCalls' = [addCalls EXCEPT ![pc.req] = @ + 1]
  /\ pc' = Advance(pc)
  /\ UNCHANGED << kind, promise, result, resolveCalls, rejectCalls,
                  removeCalls, toChrome, dispatched, delivered, lastEvent,
                  lastInvoked >>

\* window.dispatchEvent(new CustomEvent('WebChannelMessageToChrome', ...)):
\* the dispatch starts; listeners of the browser side run before it returns.
sendMessage ==
  /\ pc.pos > 0
  /\ ~pc.dispatching
  /\ ExecutorOrder[pc.pos] = "sendMessage"
  /\ toChrome' = Append(toChrome,
        JSONstringify([id |-> CHANNEL_ID, message |-> RequestMessage(kind[pc.req])]))
  /\ dispatched' = [dispatched EXCEPT ![pc.req] = @ + 1]
  /\ pc' = [pc EXCEPT !.dispatching = TRUE]
  /\ UNCHANGED << kind, listeners, promise, result, resolveCalls, rejectCalls,
                  addCalls, removeCalls, delivered, lastEvent, lastInvoked >>

\* window.dispatchEvent returns.
dispatchReturns ==
  /\ pc.dispatching
  /\ pc' = Advance(pc)
  /\ UNCHANGED << kind, listeners, promise, result, resolveCalls, rejectCalls,
                  addCalls, removeCalls, toChrome, dispatched, delivered,
                  lastEvent, lastInvoked >>

\* A bus that hands an event to its first listener only.
InvokedListenersFirstOnly(ls) ==
  IF ls = << >> THEN {} ELSE {ls[1]}

\* The listeners a dispatch of WebChannelMessageToContent invokes: each
\* call added its own with addEventListener, and all of them are invoked.
InvokedListeners(ls) == {ls[i] : i \in 1..Len(ls)}

\* window.removeEventListener without the capture flag the listener was
\* added with: nothing is removed.
RemoveEventListenerNoCapture(ls, removed) == ls

\* removeEventListener that leaves the first of the listeners in place.
RemoveEventListenerButFirst(ls, removed) ==
  SelectSeq(ls, LAMBDA r : r \notin removed \/ r = ls[1])

\* window.removeEventListener('WebChannelMessageToContent', listener, true)
\* called by each listener of `removed` for itself.
RemoveEventListener(ls, removed) ==
  SelectSeq(ls, LAMBDA r : r \notin removed)

\* The bus delivers a WebChannelMessageToContent event: every listener that
\* is registered when the dispatch starts is invoked with it.  Events arrive
\* between tasks, or synchronously while a WebChannelMessageToChrome event
\* is being dispatched.
WebChannelMessageToContent(event) ==
  /\ pc = Idle \/ pc.dispatching
  /\ delivered < MaxEvents
  /\ delivered' = delivered + 1
  /\ lastEvent' = event
  /\ LET o(r) == listener(ExpectedResponse(kind[r]), event)
         hit(r) == r \in InvokedListeners(listeners)
     IN
       /\ lastInvoked' = {r \in Req : hit(r)}
       /\ rejectCalls' = [r \in Req |->
            IF hit(r) /\ CallsReject(o(r)) THEN rejectCalls[r] + 1 ELSE rejectCalls[r]]
       /\ resolveCalls' = [r \in Req |->
            IF hit(r) /\ CallsResolve(o(r)) THEN resolveCalls[r] + 1 ELSE resolveCalls[r]]
       /\ removeCalls' = [r \in Req |->
            IF hit(r) /\ RemovesListener(o(r)) THEN removeCalls[r] + 1 ELSE removeCalls[r]]
       /\ promise' = [r \in Req |->
            IF hit(r) /\ CallsReject(o(r))
              THEN Settle(promise[r], "rejected", RejectValue(o(r), event))
            ELSE IF hit(r) /\ CallsResolve(o(r))
              THEN Settle(promise[r], "resolved", MessageValue(event.message))
            ELSE promise[r]]
       /\ listeners' = RemoveEventListener(listeners,
            {r \in Req : hit(r) /\ RemovesListener(o(r))})
  /\ UNCHANGED << kind, pc, result, addCalls, toChrome, dispatched >>

\* The query returning whether there is a response instead of its flag.
ReturnValueTruthy(k, response) ==
  IF k = "query" THEN JSboolean("true") ELSE JSundefined

\* The value an async function returns once its await has a response.
ReturnValue(k, response) ==
  IF k = "query" THEN response.menuButtonIsEnabled ELSE JSundefined

\* The await in the async function resumes with the settled promise.
resume(r) ==
  /\ pc = Idle
  /\ kind[r] # "none"
  /\ promise[r].state # "pending"
  /\ result[r].state = "pending"
  /\ result' = [result EXCEPT ![r] =
        IF promise[r].state = "resolved"
          THEN [state |-> "resolved",
                value |-> ReturnValue(kind[r], promise[r].value.msg),
                reason |-> NoValue]
          ELSE [state |-> "rejected", value |-> JSundefined,
                reason |-> promise[r].value]]
  /\ UNCHANGED << kind, pc, listeners, promise, resolveCalls, rejectCalls,
                  addCalls, removeCalls, toChrome, dispatched, delivered,
                  lastEvent, lastInvoked >>

Next ==
  \/ queryIsMenuButtonEnabled
  \/ enableMenuButton
  \/ registerOneOffListener
  \/ sendMessage
  \/ dispatchReturns
  \/ \E event \in InboundEvents : WebChannelMessageToContent(event)
  \/ \E r \in Req : resume(r)

Spec == Init /\ [][Next]_vars

\* ------------------------------------------------------------------------
\* Vocabulary of the properties.

\* The step delivers one inbound event, which is lastEvent'.
Delivery == delivered' = delivered + 1

\* Request r is pending: its listener is on the bus and its promise is
\* not settled.
Listening(r) == IsRegistered(r) /\ promise[r].state = "pending"

RegisteredIn(ls, r) == \E i \in 1..Len(ls) : ls[i] = r

OnChannel(e) == e.hasDetail /\ e.id = CHANNEL_ID
OffChannel(e) == e.hasDetail /\ e.id # CHANNEL_ID
IsObject(m) == m.typeof = "object" /\ ~m.isNull
HasStringError(m) == m.error.typeof = "string"
HasStringType(m) == m.type.typeof = "string"

\* e is the response request r waits for: a message of its expected type
\* that carries no error.
Matching(r, e) ==
  /\ OnChannel(e)
  /\ IsObject(e.message)
  /\ ~HasStringError(e.message)
  /\ HasStringType(e.message)
  /\ e.message.type.val = ExpectedResponse(kind[r])

\* e is a well-formed message of another type than the one r waits for.
OtherType(r, e) ==
  /\ OnChannel(e)
  /\ IsObject(e.message)
  /\ ~HasStringError(e.message)
  /\ HasStringType(e.message)
  /\ e.message.type.val # ExpectedResponse(kind[r])

\* The step leaves the promise, the continuations and the listener of r alone.
Untouched(r) ==
  /\ promise'[r] = promise[r]
  /\ resolveCalls'[r] = resolveCalls[r]
  /\ rejectCalls'[r] = rejectCalls[r]
  /\ removeCalls'[r] = removeCalls[r]
  /\ RegisteredIn(listeners', r) = IsRegistered(r)

\* ------------------------------------------------------------------------
\* C1: while a request is pending, an inbound event whose id is not
\* "profiler.firefox.com" is ignored, whatever its message: the promise
\* stays pending and the listener stays registered.
C1_OtherChannelIgnored ==
  [][\A r \in Req :
       (Delivery /\ Listening(r) /\ OffChannel(lastEvent'))
         => (promise'[r].state = "pending" /\ RegisteredIn(listeners', r))]_vars

\* C2: while a request is pending, an event on the channel whose message has
\* a string error rejects the request with that message and removes the
\* listener in the same step; the same event delivered again afterwards
\* reaches no listener of the request and changes nothing of it.
C2_RemoteErrorRejectsAndRemoves ==
  [][\A r \in Req :
       /\ (Delivery /\ Listening(r) /\ OnChannel(lastEvent')
             /\ IsObject(lastEvent'.message) /\ HasStringError(lastEvent'.message))
            => /\ promise'[r] = [state |-> "rejected",
                                 value |-> MessageValue(lastEvent'.message)]
               /\ ~RegisteredIn(listeners', r)
       /\ (Delivery /\ promise[r].state = "rejected" /\ ~IsRegistered(r)
             /\ OnChannel(lastEvent') /\ HasStringError(lastEvent'.message)
             /\ promise[r].value = MessageValue(lastEvent'.message))
            => /\ Untouched(r)
               /\ r \notin lastInvoked'
               /\ ~RegisteredIn(listeners', r)]_vars

\* C2 witness: a request was rejected by an error event, its listener is
\* gone, and an identical error event was delivered afterwards.
C2_Witness ==
  \E r \in Req :
    /\ promise[r].state = "rejected"
    /\ OnChannel(lastEvent) /\ HasStringError(lastEvent.message)
    /\ promise[r].value = MessageValue(lastEvent.message)
    /\ ~IsRegistered(r)
    /\ removeCalls[r] = 1
    /\ r \notin lastInvoked
    /\ rejectCalls[r] = 1

\* C3: while a request is pending, an event on the channel whose message is
\* an object with neither a string error nor a string type rejects the
\* request with the malformed-event error and removes the listener in the
\* same step.
C3_MalformedRejectsAndRemoves ==
  [][\A r \in Req :
       (Delivery /\ Listening(r) /\ OnChannel(lastEvent')
          /\ IsObject(lastEvent'.message)
          /\ ~HasStringError(lastEvent'.message)
          /\ ~HasStringType(lastEvent'.message))
         => /\ promise'[r] = [state |-> "rejected", value |-> MalformedError]
            /\ ~RegisteredIn(listeners', r)]_vars

\* C4: in every reachable state, a request whose promise is settled has no
\* listener on the bus.
C4_SettledImpliesDeregistered ==
  \A r \in Req : promise[r].state # "pending" => ~IsRegistered(r)

\* C5: once the promise of a request is settled, no later inbound event
\* changes it or invokes resolve or reject of the request again.
C5_SettledOnceInvokedOnce ==
  [][\A r \in Req :
       (Delivery /\ promise[r].state # "pending")
         => /\ promise'[r] = promise[r]
            /\ resolveCalls'[r] = resolveCalls[r]
            /\ rejectCalls'[r] = rejectCalls[r]]_vars

\* C6: while a request is pending, an event on the channel whose message is
\* undefined, null or not an object is ignored: the promise stays pending
\* and the listener stays registered.
C6_NonObjectMessageIgnored ==
  [][\A r \in Req :
       (Delivery /\ Listening(r) /\ OnChannel(lastEvent')
          /\ ~IsObject(lastEvent'.message))
         => (promise'[r].state = "pending" /\ RegisteredIn(listeners', r))]_vars

\* C7: a pending call that receives its response (STATUS_RESPONSE for the
\* query, ENABLE_MENU_BUTTON_DONE for the enable call; a MessageFromBrowser,
\* which has no error property) is resolved with that message and its
\* listener is removed in the same step; the query then returns exactly the
\* menuButtonIsEnabled value of the message, the enable call undefined.
C7_ResponseResolves ==
  [][\A r \in Req :
       /\ (Delivery /\ Listening(r) /\ Matching(r, lastEvent'))
            => /\ promise'[r] = [state |-> "resolved",
                                 value |-> MessageValue(lastEvent'.message)]
               /\ ~RegisteredIn(listeners', r)
       /\ (result[r].state = "pending" /\ result'[r].state = "resolved")
            => /\ promise[r].state = "resolved"
               /\ kind[r] = "query" =>
                    result'[r].value = promise[r].value.msg.menuButtonIsEnabled
               /\ kind[r] = "enable" => result'[r].value = JSundefined]_vars

\* C7 witness: a query has returned false from a STATUS_RESPONSE carrying
\* false, an enable call has returned, and both listeners are gone.
C7_Witness ==
  \E q \in Req, en \in Req :
    /\ kind[q] = "query" /\ kind[en] = "enable"
    /\ promise[q] = [state |-> "resolved", value |-> MessageValue(STATUS_RESPONSE("false"))]
    /\ result[q].state = "resolved" /\ result[q].value = JSboolean("false")
    /\ promise[en] = [state |-> "resolved", value |-> MessageValue(ENABLE_MENU_BUTTON_DONE)]
    /\ result[en].state = "resolved"
    /\ ~IsRegistered(q) /\ ~IsRegistered(en)

\* C8: for a pending request, events of another channel and well-formed
\* messages of another type never settle the request nor remove its
\* listener, and the matching response that follows them resolves the
\* request with that response.
C8_UnrelatedEventsDoNotPreempt ==
  [][\A r \in Req :
       (Delivery /\ Listening(r))
         => /\ (OffChannel(lastEvent') \/ OtherType(r, lastEvent'))
                 => (promise'[r].state = "pending" /\ RegisteredIn(listeners', r))
            /\ Matching(r, lastEvent')
                 => promise'[r] = [state |-> "resolved",
                                   value |-> MessageValue(lastEvent'.message)]]_vars

\* C9: an event on the channel whose message has a string type other than
\* the expected response type of a pending request, and no string error,
\* leaves that request unchanged: with a query and an enable call pending,
\* each response settles only its own call.
C9_OtherTypeLeavesRequestUnchanged ==
  [][\A r \in Req :
       (Delivery /\ Listening(r) /\ OtherType(r, lastEvent'))
         => /\ Untouched(r)
            /\ result'[r] = result[r]
            /\ promise'[r].state = "pending"
            /\ RegisteredIn(listeners', r)]_vars

\* C9 witness: a query and an enable call were both pending when a
\* STATUS_RESPONSE arrived; the query is resolved, the enable call is still
\* pending with its listener registered.
C9_Witness ==
  \E q \in Req, en \in Req :
    /\ kind[q] = "query" /\ kind[en] = "enable"
    /\ lastEvent = Event(CHANNEL_ID, STATUS_RESPONSE("true"))
    /\ q \in lastInvoked /\ en \in lastInvoked
    /\ promise[q] = [state |-> "resolved", value |-> MessageValue(lastEvent.message)]
    /\ ~IsRegistered(q)
    /\ promise[en].state = "pending"
    /\ IsRegistered(en)

\* C10: the listener of a call is registered before its
\* WebChannelMessageToChrome event is dispatched, so a matching response
\* delivered while that dispatch is still running resolves the call.
C10_RegisteredBeforeDispatch ==
  [][\A r \in Req :
       /\ dispatched'[r] > dispatched[r] => IsRegistered(r)
       /\ (Delivery /\ pc.dispatching /\ pc.req = r
             /\ promise[r].state = "pending" /\ Matching(r, lastEvent'))
            => promise'[r] = [state |-> "resolved",
                              value |-> MessageValue(lastEvent'.message)]]_vars

\* C10 witness: a call was resolved by a response delivered during its own
\* dispatch, before the dispatch returned.
C10_Witness ==
  /\ pc.dispatching
  /\ promise[pc.req].state = "resolved"
  /\ Matching(pc.req, lastEvent)
  /\ promise[pc.req].value = MessageValue(lastEvent.message)
  /\ pc.req \in lastInvoked

\* C11: when two or more calls awaiting the same response type are pending
\* at once, one matching inbound event resolves every one of them with that
\* same message and removes every one of their listeners.
C11_OneResponseResolvesAllSameType ==
  [][\A r1 \in Req, r2 \in Req :
       (Delivery /\ r1 # r2 /\ kind[r1] = kind[r2]
          /\ Listening(r1) /\ Listening(r2) /\ Matching(r1, lastEvent'))
         => /\ promise'[r1] = [state |-> "resolved",
                               value |-> MessageValue(lastEvent'.message)]
            /\ promise'[r2] = promise'[r1]
            /\ ~RegisteredIn(listeners', r1)
            /\ ~RegisteredIn(listeners', r2)]_vars

\* C11 witness: two queries were pending, one STATUS_RESPONSE reached both
\* listeners, both are resolved with it and both listeners are gone.
C11_Witness ==
  \E r1 \in Req, r2 \in Req :
    /\ r1 # r2
    /\ kind[r1] = "query" /\ kind[r2] = "query"
    /\ r1 \in lastInvoked /\ r2 \in lastInvoked
    /\ Matching(r1, lastEvent)
    /\ promise[r1] = [state |-> "resolved", value |-> MessageValue(lastEvent.message)]
    /\ promise[r2] = promise[r1]
    /\ resolveCalls[r1] = 1 /\ resolveCalls[r2] = 1
    /\ ~IsRegistered(r1) /\ ~IsRegistered(r2)

\* C12: the listener of a request is removed from the bus at most once:
\* once removed it is never invoked again and never registered again, and
\* no second removal is issued for it.
C12_RemovedAtMostOnce ==
  [][\A r \in Req :
       /\ removeCalls'[r] <= 1
       /\ addCalls'[r] <= 1
       /\ removeCalls[r] >= 1
            => /\ ~IsRegistered(r)
               /\ ~RegisteredIn(listeners', r)
               /\ Delivery => r \notin lastInvoked'
               /\ removeCalls'[r] = removeCalls[r]]_vars

\* C12 witness: a listener that stayed on the bus after a malformed-event
\* rejection was removed by a later event, and the event delivered after
\* the removal, an error event, did not reach it.
C12_Witness ==
  \E r \in Req :
    /\ promise[r] = [state |-> "rejected", value |-> MalformedError]
    /\ removeCalls[r] = 1
    /\ ~IsRegistered(r)
    /\ r \notin lastInvoked
    /\ OnChannel(lastEvent)
    /\ IsObject(lastEvent.message)
    /\ HasStringError(lastEvent.message)
    /\ rejectCalls[r] + resolveCalls[r] = 2

\* e is a remote-error event: a message on the channel with a string error.
RemoteErrorEvent(e) ==
  OnChannel(e) /\ IsObject(e.message) /\ HasStringError(e.message)

\* e is a malformed event: a message object on the channel that has neither
\* a string error nor a string type.
MalformedEvent(e) ==
  /\ OnChannel(e)
  /\ IsObject(e.message)
  /\ ~HasStringError(e.message)
  /\ ~HasStringType(e.message)

\* C13: a request settles only by handling an inbound event; there is no
\* timeout or cancellation, so as long as no matching response, remote-error
\* event or malformed event is delivered, every step leaves the promise
\* pending and the listener registered.
C13_PendingUntilTerminalEvent ==
  [][\A r \in Req :
       (Listening(r)
          /\ ~(Delivery /\ (\/ Matching(r, lastEvent')
                             \/ RemoteErrorEvent(lastEvent')
                             \/ MalformedEvent(lastEvent'))))
         => (promise'[r].state = "pending" /\ RegisteredIn(listeners', r))]_vars

\* Reading a serialized payload back: the set of (path, string) pairs of
\* the JSON text, found by walking its tokens with the keys of the
\* enclosing objects in `path`.
RECURSIVE JSONparse(_, _, _)
JSONparse(toks, i, path) ==
  IF i > Len(toks) THEN {}
  ELSE IF toks[i].tok = "string"
    THEN IF i < Len(toks) /\ toks[i + 1] = Punct(":")
           THEN JSONparse(toks, i + 2, Append(path, toks[i].s))
           ELSE {[path |-> path, value |-> toks[i].s]}
                  \cup JSONparse(toks, i + 1, SubSeq(path, 1, Len(path) - 1))
  ELSE IF toks[i] = Punct("}")
    THEN JSONparse(toks, i + 1, SubSeq(path, 1, Len(path) - 1))
  ELSE JSONparse(toks, i + 1, path)

\* The type each exported function puts on the wire.
WireType(k) == IF k = "query" THEN "STATUS_QUERY" ELSE "ENABLE_MENU_BUTTON"

\* The executor of call r has run to its end.
Returned(r) == kind[r] # "none" /\ pc.req # r

\* C14: each call dispatches exactly one WebChannelMessageToChrome event
\* over its whole lifetime, whatever inbound events follow; its payload
\* reads back as id "profiler.firefox.com" and a message whose type is
\* "STATUS_QUERY" for the query and "ENABLE_MENU_BUTTON" for the enable call.
C14_OneOutgoingEventPerCall ==
  /\ Len(toChrome) = Cardinality({r \in Req : dispatched[r] > 0})
  /\ \A r \in Req :
       /\ dispatched[r] <= 1
       /\ Returned(r) => dispatched[r] = 1
       /\ dispatched[r] = 1
            => /\ r <= Len(toChrome)
               /\ JSONparse(toChrome[r], 1, << >>) =
                    { [path |-> <<"id">>, value |-> "profiler.firefox.com"],
                      [path |-> <<"message", "type">>, value |-> WireType(kind[r])] }

\* C14 witness: a query and an enable call have both returned, all inbound
\* events of the run were delivered after the first dispatch, one of them
\* rejected a call, and exactly two payloads are on the wire.
C14_Witness ==
  \E q \in Req, en \in Req :
    /\ kind[q] = "query" /\ kind[en] = "enable"
    /\ Returned(q) /\ Returned(en)
    /\ delivered = MaxEvents
    /\ promise[q].state = "rejected"
    /\ rejectCalls[q] > 1
    /\ Len(toChrome) = 2

\* C15: the outcome of a call is fixed by the first terminal event it
\* handles: once the promise is settled, later events (a matching response
\* or an error event after a malformed-event rejection) never change it,
\* and the caller sees that first outcome and keeps it.
C15_FirstOutcomeIsFinal ==
  [][\A r \in Req :
       promise[r].state # "pending"
         => /\ promise'[r] = promise[r]
            /\ result[r].state # "pending" => result'[r] = result[r]
            /\ (result[r].state = "pending" /\ result'[r].state # "pending")
                 => /\ result'[r].state = promise[r].state
                    /\ promise[r].state = "rejected"
                         => result'[r].reason = promise[r].value]_vars

\* C15 witness: a call was rejected by a malformed event, its caller saw
\* the rejection, and the matching response that arrived afterwards invoked
\* resolve without changing the outcome.
C15_Witness ==
  \E r \in Req :
    /\ promise[r] = [state |-> "rejected", value |-> MalformedError]
    /\ result[r].state = "rejected"
    /\ result[r].reason = MalformedError
    /\ r \in lastInvoked
    /\ Matching(r, lastEvent)
    /\ resolveCalls[r] = 1
    /\ rejectCalls[r] >= 1

\* C16: the error check takes precedence over the type check: a message on
\* the channel that carries both a string error and a string type equal to
\* the expected response type of a pending request rejects the request and
\* removes its listener instead of resolving it.
C16_ErrorBeforeType ==
  [][\A r \in Req :
       (Delivery /\ Listening(r) /\ RemoteErrorEvent(lastEvent')
          /\ HasStringType(lastEvent'.message)
          /\ lastEvent'.message.type.val = ExpectedResponse(kind[r]))
         => /\ promise'[r] = [state |-> "rejected",
                              value |-> MessageValue(lastEvent'.message)]
            /\ resolveCalls'[r] = resolveCalls[r]
            /\ rejectCalls'[r] = rejectCalls[r] + 1
            /\ ~RegisteredIn(listeners', r)]_vars

\* C16 witness: a query was rejected by a message of type STATUS_RESPONSE
\* that also carries a string error; resolve was never invoked.
C16_Witness ==
  \E r \in Req :
    /\ kind[r] = "query"
    /\ r \in lastInvoked
    /\ lastEvent = Event(CHANNEL_ID,
          Object(JSstring("boom"), JSstring("STATUS_RESPONSE"), JSboolean("true")))
    /\ promise[r] = [state |-> "rejected", value |-> MessageValue(lastEvent.message)]
    /\ resolveCalls[r] = 0
    /\ rejectCalls[r] = 1
    /\ ~IsRegistered(r)

\* C17: with several requests pending at once, of the same or of different
\* expected response types, one event on the channel carrying a string
\* error rejects every pending request and removes every registered
\* listener.
C17_ErrorRejectsAllPending ==
  [][(Delivery /\ RemoteErrorEvent(lastEvent'))
       => /\ \A r \in Req :
               Listening(r)
                 => promise'[r] = [state |-> "rejected",
                                   value |-> MessageValue(lastEvent'.message)]
          /\ \A r \in Req : IsRegistered(r) => r \in lastInvoked'
          /\ listeners' = << >>]_vars

\* C17 witness: a query and an enable call were both pending when one
\* error event arrived; both are rejected with its message and no listener
\* is left on the bus.
C17_Witness ==
  \E q \in Req, en \in Req :
    /\ kind[q] = "query" /\ kind[en] = "enable"
    /\ q \in lastInvoked /\ en \in lastInvoked
    /\ RemoteErrorEvent(lastEvent)
    /\ promise[q] = [state |-> "rejected", value |-> MessageValue(lastEvent.message)]
    /\ promise[en] = promise[q]
    /\ rejectCalls[q] = 1 /\ rejectCalls[en] = 1
    /\ listeners = << >>

====
